---- MODULE Spec2Model ----
(***************************************************************************)
(* Model of ddtruss/solver.py: DataDrivenSolver.load_material_data,        *)
(* DataDrivenSolver.solve and DataDrivenSolver._optimal_local_states.      *)
(*                                                                         *)
(* Numbers.  Strains, stresses and displacements are integers; the input   *)
(* sets below are chosen so that every quotient the code forms is exact    *)
(* (ExactDiv has no value otherwise) and every E_num is a perfect square,  *)
(* so that sqE = sqrt(E_num) is an integer.  A float that can be NaN       *)
(* (E_num, sqE) is a record [fin, val].  An optional value (Python None)   *)
(* is a sequence of length 0 or 1.  Python's 0-based sample indices are    *)
(* kept: sample i of material_data is material_data[i + 1].                *)
(*                                                                         *)
(* The truss (self.truss) is a collaborator outside solver.py.  It is      *)
(* modelled as a deterministic two-bar chain (nodes 0-1-2, unit lengths,   *)
(* unit area): end displacements prescribed, node 1 free and loaded.       *)
(*                                                                         *)
(* Spec is the instance under any sequence of load_material_data and       *)
(* solve calls on small sample sets.  SpecCheck is the convergence check   *)
(* of solve alone, on the indices of a large sample set.                   *)
(***************************************************************************)
EXTENDS Integers, Sequences, FiniteSets, TLC

\* ---------------------------------------------------------------- bounds
MaxSolves == 2      \* solve calls made on the instance
MaxLoads == 2       \* load_material_data calls made on the instance
MaxIter == 2        \* n_iterations is drawn from 0..MaxIter
LargeN == 100002    \* the samples of the large set of SpecCheck

\* ------------------------------------------------------------- utilities
None == <<>>
Some(v) == <<v>>
IsNone(o) == Len(o) = 0
Val(o) == o[1]

Abs(x) == IF x < 0 THEN -x ELSE x

Fl(v) == [fin |-> TRUE, val |-> v]
NaN == [fin |-> FALSE, val |-> 0]

\* a / b for the exact quotients of the model's inputs
ExactDiv(a, b) ==
    LET s == IF (a < 0) # (b < 0) THEN -1 ELSE 1
    IN  CHOOSE q \in {s * (Abs(a) \div Abs(b))} : q * b = a

RECURSIVE SumSeq(_)
SumSeq(s) == IF Len(s) = 0 THEN 0 ELSE Head(s) + SumSeq(Tail(s))

RECURSIVE GCD(_, _)
GCD(a, b) == IF b = 0 THEN a ELSE GCD(b, a % b)

SetMin(S) == CHOOSE x \in S : \A y \in S : x <= y
SetMax(S) == CHOOSE x \in S : \A y \in S : x >= y

\* ------------------------------------------------------------ the truss
NLines == 2

Lines == 1..NLines

\* self.truss.solve(A=1, E, U_dict, F_dict, sig0): equilibrium of the chain.
\*   eps1 + eps2 = u2 - u0,   E*(eps1 - eps2) + sig0_1 - sig0_2 = F_1
TrussSolve(E, Ud, Fd, sig0) ==
    LET u0 == Val(Ud[0][1])
        u2 == Val(Ud[2][1])
        F == IF 1 \in DOMAIN Fd THEN Fd[1][1] ELSE 0
        r == ExactDiv(F - sig0[1] + sig0[2], E)
        eps1 == ExactDiv((u2 - u0) + r, 2)
        eps2 == (u2 - u0) - eps1
    IN  [u |-> <<u0, u0 + eps1, u2>>, eps |-> <<eps1, eps2>>]

\* self.truss.integrate(dist): a sum over the elements (unit lengths).  The
\* distances arrive squared, as numerators d2 over the common denominator
\* den; the objective is kept as the sum of the squares, a fraction
\* <<numerator, denominator>> in lowest terms.
TrussIntegrate(d2, den) ==
    <<SumSeq(d2) \div GCD(SumSeq(d2), den), den \div GCD(SumSeq(d2), den)>>

\* ------------------------------------------------------------- the inputs
DLin4 == << <<0, 0>>, <<2, 8>>, <<-2, -8>> >>      \* secant modulus 4
DLin1 == << <<0, 0>>, <<8, 8>>, <<-8, -8>> >>      \* secant modulus 1
DZero == << <<0, 0>>, <<0, 8>> >>                  \* every strain is 0

DWide == << <<0, 0, 0>>, <<2, 8, 0>> >>            \* three fields per row

MaterialSets == {DLin4, DLin1, DZero, DWide}

ENumArgs == {None, Some(0), Some(1), Some(4)}

UDictOf(U) == (0 :> <<Some(0), Some(0)>>) @@ (1 :> <<None, Some(0)>>)
              @@ (2 :> <<Some(U), Some(0)>>)

UDicts == {UDictOf(0), UDictOf(4)}

EmptyDict == [k \in {} |-> <<>>]

FDicts == {EmptyDict, (1 :> <<8, 0>>)}

TieRules == {"lowest", "highest"}

\* ------------------------------------------------------------- the state
VARIABLES
    tieRule,          \* the k-d tree's rule for equidistant samples
    nSolves, nLoads,  \* calls made so far
    loaded,           \* load_material_data has been called
    last_load,        \* the load_material_data call just made, until the
                      \* next solve call: the row width it was given, how
                      \* it ended, and the index it found in place
    material_data,    \* self.material_data
    n_data,           \* self.n_data
    data_tree,        \* self.data_tree: None or Some([data, sq])
    sqE,              \* self.sqE
    pc,               \* position in solve
    args,             \* the arguments of the running solve call
    E_num, idx, eps_sig_, U_dict_0, f_obj_iter,     \* locals of solve
    u, eps_sig, eps_sig_idx,                        \* locals of solve
    calls,            \* the self.truss.solve calls of the running solve call
    idx_hist,         \* the values idx has been compared against, then the
                      \* matched indices of each projection, in order
    channel,          \* how control left solve: "none", "return", "raise"
    result            \* the value returned or the exception raised

vars == <<tieRule, nSolves, nLoads, loaded, last_load, material_data, n_data,
          data_tree,
          sqE, pc, args, E_num, idx, eps_sig_, U_dict_0, f_obj_iter, u,
          eps_sig, eps_sig_idx, calls, idx_hist, channel, result>>

instance == <<loaded, material_data, n_data, data_tree>>
locals == <<E_num, idx, eps_sig_, U_dict_0, f_obj_iter, u, eps_sig,
            eps_sig_idx, calls, idx_hist>>

NoArgs == [E_num |-> None, n_iterations |-> 0, U_dict |-> EmptyDict,
           F_dict |-> EmptyDict, draw |-> <<>>]
NoResult == [kind |-> "none"]

NoLoad == [shape1 |-> 0, outcome |-> "none", found_tree |-> None]

Sample(md, i) == md[i + 1]

Init ==
    /\ tieRule \in TieRules
    /\ nSolves = 0 /\ nLoads = 0
    /\ loaded = FALSE
    /\ last_load = NoLoad
    /\ material_data = <<>>
    /\ n_data = 0
    /\ data_tree = None
    /\ sqE = NaN
    /\ pc = "idle"
    /\ args = NoArgs
    /\ E_num = NaN /\ idx = <<>> /\ eps_sig_ = <<>> /\ U_dict_0 = EmptyDict
    /\ f_obj_iter = <<>> /\ u = <<>> /\ eps_sig = <<>> /\ eps_sig_idx = <<>>
    /\ calls = <<>> /\ idx_hist = <<>>
    /\ channel = "none"
    /\ result = NoResult

\* --------------------------------------------------- load_material_data
\* material_data.shape[1]: the number of fields of a row
Shape1(md) == Len(md[1])

\* a load that leaves the index of the previous samples in place
TreeAfterLoadKept(tree) == tree

\* line 30: self.data_tree = None
TreeAfterLoad(tree) == None

\* lines 27-30.  The shape is checked with an assert statement, which an
\* interpreter started with -O does not execute: a set of another row width
\* is refused with AssertionError, or stored like any other.
load_material_data(md) ==
    /\ pc = "idle"
    /\ nLoads < MaxLoads
    /\ nLoads' = nLoads + 1
    /\ \/ /\ Shape1(md) # 2
          /\ last_load' = [shape1 |-> Shape1(md),
                           outcome |-> "AssertionError",
                           found_tree |-> data_tree]
          /\ UNCHANGED instance
       \/ /\ last_load' = [shape1 |-> Shape1(md), outcome |-> "stored",
                           found_tree |-> data_tree]
          /\ loaded' = TRUE
          /\ material_data' = md
          /\ n_data' = Len(md)
          /\ data_tree' = TreeAfterLoad(data_tree)
    /\ UNCHANGED <<tieRule, nSolves, sqE, pc, args, locals, channel, result>>

\* ------------------------------------------------------------------ solve
\* np.isclose(x, 0): |x - 0| <= atol + rtol * |0|, atol = 1e-8
IsCloseZero(x) == Abs(x) * 100000000 <= 1

\* lines 62-65: the mean secant modulus over the samples of non-zero strain;
\* the mean of an empty array is NaN
MeanSecant(md) ==
    LET keep == SelectSeq(md, LAMBDA s : ~IsCloseZero(s[1]))
        E_secent == [k \in 1..Len(keep) |-> ExactDiv(keep[k][2], keep[k][1])]
    IN  IF Len(keep) = 0 THEN NaN
        ELSE Fl(ExactDiv(SumSeq(E_secent), Len(keep)))

ENumOf(E_arg, md) == IF IsNone(E_arg) THEN MeanSecant(md) ELSE Fl(Val(E_arg))

\* line 66: np.sqrt (NaN for a negative or NaN argument)
Sqrt(E) ==
    IF ~E.fin \/ E.val < 0 THEN NaN
    ELSE Fl(CHOOSE r \in 0..E.val : r * r = E.val)

\* the scale is a positive finite number: the arithmetic below is defined
Usable(E) == E.fin /\ E.val > 0

\* line 69: np.random.randint(self.n_data, size=n_lines)
Draws(n) == [Lines -> 0..(n - 1)]

\* initial states read one sample off the drawn indices
InitialStatesShifted(md, ix) ==
    [e \in Lines |-> Sample(md, (ix[e] + 1) % Len(md))]

\* line 70: eps_sig_ = self.material_data[idx]
InitialStates(md, ix) == [e \in Lines |-> Sample(md, ix[e])]

\* matched states read one sample off the matched indices
MatchedStatesShifted(md, ix) == [e \in Lines |-> Sample(md, (ix[e] + 1) % Len(md))]

\* line 122: eps_sig_optimal = self.material_data[idx]
MatchedStates(md, ix) == [e \in Lines |-> Sample(md, ix[e])]

\* a zeroed map that keeps the caller's prescribed values
ZeroedDictKeepsValues(Ud) == Ud

\* lines 73-75
ZeroedDict(Ud) ==
    [key \in DOMAIN Ud |->
        [a \in DOMAIN Ud[key] |-> IF ~IsNone(Ud[key][a]) THEN Some(0) ELSE None]]

\* a loop that runs one iteration too many
LoopCondOneMore(f, n) == Len(f) <= n + 1

\* line 78
LoopCond(f, n) == Len(f) <= n

\* line 80
Sig0A(E, st) == [e \in Lines |-> -E * st[e][1]]

\* a solve that assembles the matrix in every iteration
ConstructKAlways(f) == Len(f) >= 0

\* lines 81-84
ConstructK(f) == Len(f) = 0

\* line 90
Sig0B(st) == [e \in Lines |-> st[e][2]]

\* line 94
CombineSig(E, st, eps_eta) == [e \in Lines |-> st[e][2] + E * eps_eta[e]]

\* line 96
HStack(eps, sig) == [e \in Lines |-> <<eps[e], sig[e]>>]

\* lines 85-87: the arguments of sub-problem A's call (F_dict is not passed)
CallA(E, Ud, st, f) ==
    [prob |-> "A", E |-> E, U_dict |-> Ud, F_dict |-> EmptyDict,
     sig0 |-> IF E.fin THEN Sig0A(E.val, st) ELSE <<>>,
     construct_K |-> Some(ConstructK(f))]

\* lines 91-93: the arguments of sub-problem B's call (construct_K is not
\* passed)
CallB(E, Ud0, Fd, st) ==
    [prob |-> "B", E |-> E, U_dict |-> Ud0, F_dict |-> Fd,
     sig0 |-> Sig0B(st),
     construct_K |-> None]

\* ------------------------------------------------ _optimal_local_states
\* an index built by rescaling the stored samples themselves
SamplesRescaledInPlace(md, sq) ==
    [k \in 1..Len(md) |->
        [c \in DOMAIN md[k] |->
            IF c = 1 THEN md[k][c] * sq
            ELSE IF c = 2 THEN ExactDiv(md[k][c], sq) ELSE md[k][c]]]

\* line 112: eps_sig_data = self.material_data.copy(); lines 113-114 rescale
\* the copy, so the stored samples are after the build what they were
SamplesAfterBuild(md, sq) == md

\* a trace that takes every objective value twice
AppendObjTwice(f, v) == Append(Append(f, v), v)

\* line 98: f_obj_iter.append(f_obj)
AppendObj(f, v) == Append(f, v)

\* lines 112-115: the tree holds a rescaled copy of the samples; sq is the
\* scale the copy was made with
BuildTree(md, sq) == [data |-> md, sq |-> sq]

\* lines 111-115
TreeFor(tree, md, sq) == IF IsNone(tree) THEN Some(BuildTree(md, sq)) ELSE tree

\* Squared Euclidean distance between the query q rescaled with sc
\* (q_eps * sc, q_sig / sc) and the sample d rescaled with st
\* (d_eps * st, d_sig / st), times (sc * st)^2.
Dist2(q, sc, d, st) ==
    LET dx == q[1] * sc * sc * st - d[1] * st * st * sc
        dy == q[2] * st - d[2] * sc
    IN  dx * dx + dy * dy

\* line 120: the nearest sample of the tree to one rescaled query point
Nearest(t, sc, q, rule) ==
    LET S == 0..(Len(t.data) - 1)
        best == {i \in S : \A j \in S :
                    Dist2(q, sc, Sample(t.data, i), t.sq)
                        <= Dist2(q, sc, Sample(t.data, j), t.sq)}
    IN  IF rule = "lowest" THEN SetMin(best) ELSE SetMax(best)

\* lines 117-123 (ix is bound once: the query is made once per call)
OptimalLocalStates(t, md, sc, cand, rule) ==
    LET Result(ix) ==
            [idx |-> ix,
             eps_sig_optimal |-> MatchedStates(md, ix),
             f_obj |-> TrussIntegrate(
                          [e \in Lines |->
                              Dist2(cand[e], sc, Sample(t.data, ix[e]), t.sq)],
                          (sc * t.sq) * (sc * t.sq))]
    IN  CHOOSE r \in {Result(ix) :
                        ix \in {[e \in Lines |->
                                    Nearest(t, sc, cand[e], rule)]}} : TRUE

\* line 101: np.allclose(idx, eps_sig_idx), |a - b| <= atol + rtol * |b|
\* with atol = 1e-8 and rtol = 1e-5.  For integers a and b that is
\* |a - b| * 10^8 <= 1 + 1000 * |b|; the left side is a multiple of 1000,
\* so it is |a - b| * 10^5 <= |b|, which is |a - b| <= |b| \div 10^5 (the
\* form that stays within 32-bit integers).
AllClose(a, b) ==
    \A e \in Lines : Abs(a[e] - b[e]) <= Abs(b[e]) \div 100000

\* a solve that hands back the matched samples instead of the candidates
ReturnMatchedValue(uu, cand, matched, f) ==
    [kind |-> "tuple", u |-> uu,
     eps |-> [e \in Lines |-> matched[e][1]],
     sig |-> [e \in Lines |-> matched[e][2]],
     f_obj_iter |-> f]

\* line 102
ReturnValue(uu, cand, matched, f) ==
    [kind |-> "tuple", u |-> uu,
     eps |-> [e \in Lines |-> cand[e][1]],
     sig |-> [e \in Lines |-> cand[e][2]],
     f_obj_iter |-> f]

\* lines 106-108: the RuntimeError object holds its message only
NotConvergedValue(n) == [kind |-> "RuntimeError", n_iterations |-> n]

Exception(type) == [kind |-> "exception", type |-> type]

\* ---------------------------------------------------------------- actions
\* lines 62-77
SolveInit(E_arg, n, Ud, Fd, draw) ==
    /\ pc = "idle"
    /\ nSolves < MaxSolves
    /\ nSolves' = nSolves + 1
    /\ args' = [E_num |-> E_arg, n_iterations |-> n, U_dict |-> Ud,
                F_dict |-> Fd, draw |-> draw]
    /\ IF ~loaded
       THEN \* self.material_data / self.n_data do not exist yet
            /\ pc' = "raised"
            /\ channel' = "raise"
            /\ result' = Exception("AttributeError")
            /\ sqE' = IF IsNone(E_arg) THEN sqE ELSE Sqrt(Fl(Val(E_arg)))
            /\ UNCHANGED locals
       ELSE /\ draw \in Draws(n_data)
            /\ E_num' = ENumOf(E_arg, material_data)
            /\ sqE' = Sqrt(ENumOf(E_arg, material_data))
            /\ idx' = draw
            /\ eps_sig_' = InitialStates(material_data, draw)
            /\ idx_hist' = <<draw>>
            /\ U_dict_0' = ZeroedDict(Ud)
            /\ f_obj_iter' = <<>>
            /\ pc' = "while"
            /\ calls' = <<>>
            /\ UNCHANGED <<u, eps_sig, eps_sig_idx, channel, result>>
    /\ last_load' = NoLoad
    /\ UNCHANGED <<tieRule, nLoads, instance>>

\* lines 78-87; a NaN or non-positive modulus reaches the truss, which either
\* fails or hands back arrays that are not numbers
SubProblemA ==
    /\ pc = "while"
    /\ LoopCond(f_obj_iter, args.n_iterations)
    /\ calls' = Append(calls, CallA(E_num, args.U_dict, eps_sig_, f_obj_iter))
    /\ IF Usable(E_num)
       THEN /\ u' = TrussSolve(E_num.val, args.U_dict, EmptyDict,
                               Sig0A(E_num.val, eps_sig_)).u
            /\ eps_sig' = TrussSolve(E_num.val, args.U_dict, EmptyDict,
                                     Sig0A(E_num.val, eps_sig_)).eps
            /\ pc' = "B"
            /\ UNCHANGED <<channel, result>>
       ELSE \/ /\ pc' = "raised"
               /\ channel' = "raise"
               /\ result' = Exception("TrussError")
               /\ UNCHANGED <<u, eps_sig>>
            \/ /\ pc' = "B"
               /\ UNCHANGED <<u, eps_sig, channel, result>>
    /\ UNCHANGED <<tieRule, last_load, nSolves, nLoads, instance, sqE, args,
                   E_num, idx, eps_sig_, U_dict_0, f_obj_iter, eps_sig_idx,
                   idx_hist>>

\* lines 89-96; eps_sig holds eps between the two sub-problems
SubProblemB ==
    /\ pc = "B"
    /\ calls' = Append(calls, CallB(E_num, U_dict_0, args.F_dict, eps_sig_))
    /\ IF Usable(E_num)
       THEN /\ eps_sig' =
                 HStack(eps_sig,
                        CombineSig(E_num.val, eps_sig_,
                                   TrussSolve(E_num.val, U_dict_0, args.F_dict,
                                              Sig0B(eps_sig_)).eps))
            /\ pc' = "proj"
            /\ UNCHANGED <<channel, result>>
       ELSE \/ /\ pc' = "raised"
               /\ channel' = "raise"
               /\ result' = Exception("TrussError")
               /\ UNCHANGED eps_sig
            \/ /\ pc' = "proj"
               /\ UNCHANGED <<eps_sig, channel, result>>
    /\ UNCHANGED <<tieRule, last_load, nSolves, nLoads, instance, sqE, args,
                   E_num, idx, eps_sig_, U_dict_0, f_obj_iter, u,
                   eps_sig_idx, idx_hist>>

\* lines 97-98 with _optimal_local_states (lines 110-123).  A tree that has
\* to be built is built and stored before the query is made; a tree over
\* points of another width refuses the two-field query points.  With a scale
\* that is not a positive number the tree's constructor or its query refuses
\* the NaN points, or the index it hands back is out of range.
Projection ==
    /\ pc = "proj"
    /\ IF Usable(sqE)
       THEN \E t \in {TreeFor(data_tree, material_data, sqE.val)} :
            /\ data_tree' = t
            /\ material_data' =
                  IF IsNone(data_tree)
                  THEN SamplesAfterBuild(material_data, sqE.val)
                  ELSE material_data
            /\ IF Shape1(Val(t).data) = 2
               THEN \E r \in {OptimalLocalStates(Val(t), material_data,
                                                 sqE.val, eps_sig, tieRule)} :
                        /\ eps_sig_idx' = r.idx
                        /\ eps_sig_' = r.eps_sig_optimal
                        /\ f_obj_iter' = AppendObj(f_obj_iter, r.f_obj)
                        /\ idx_hist' = Append(idx_hist, r.idx)
                        /\ pc' = "check"
                        /\ UNCHANGED <<channel, result>>
               ELSE /\ pc' = "raised"
                    /\ channel' = "raise"
                    /\ result' = Exception("ValueError")
                    /\ UNCHANGED <<eps_sig_idx, eps_sig_, f_obj_iter,
                                   idx_hist>>
       ELSE /\ pc' = "raised"
            /\ channel' = "raise"
            /\ \E type \in {"ValueError", "IndexError"} :
                    result' = Exception(type)
            /\ UNCHANGED <<data_tree, material_data, eps_sig_idx, eps_sig_,
                           f_obj_iter, idx_hist>>
    /\ UNCHANGED <<tieRule, last_load, nSolves, nLoads, loaded, n_data, sqE,
                   args, E_num, idx, U_dict_0, u, eps_sig, calls>>

\* lines 100-104
ConvergenceCheck ==
    /\ pc = "check"
    /\ IF AllClose(idx, eps_sig_idx)
       THEN /\ pc' = "converged"
            /\ channel' = "return"
            /\ result' = ReturnValue(u, eps_sig, eps_sig_, f_obj_iter)
            /\ UNCHANGED idx
       ELSE /\ idx' = eps_sig_idx
            /\ pc' = "while"
            /\ UNCHANGED <<channel, result>>
    /\ UNCHANGED <<tieRule, last_load, nSolves, nLoads, instance, sqE, args,
                   E_num, eps_sig_, U_dict_0, f_obj_iter, u, eps_sig,
                   eps_sig_idx, calls, idx_hist>>

\* lines 105-108: the while loop's else branch
LoopExhausted ==
    /\ pc = "while"
    /\ ~LoopCond(f_obj_iter, args.n_iterations)
    /\ pc' = "exhausted"
    /\ channel' = "return"
    /\ result' = NotConvergedValue(args.n_iterations)
    /\ UNCHANGED <<tieRule, last_load, nSolves, nLoads, instance, sqE, args,
                   locals>>

Terminal == {"converged", "exhausted", "raised"}

\* control is back at the caller; the locals of solve are gone
Leave ==
    /\ pc \in Terminal
    /\ pc' = "idle"
    /\ args' = NoArgs
    /\ E_num' = NaN /\ idx' = <<>> /\ eps_sig_' = <<>> /\ U_dict_0' = EmptyDict
    /\ f_obj_iter' = <<>> /\ u' = <<>> /\ eps_sig' = <<>> /\ eps_sig_idx' = <<>>
    /\ calls' = <<>> /\ idx_hist' = <<>>
    /\ channel' = "none"
    /\ result' = NoResult
    /\ UNCHANGED <<tieRule, last_load, nSolves, nLoads, instance, sqE>>

Next ==
    \/ \E md \in MaterialSets : load_material_data(md)
    \/ \E E_arg \in ENumArgs, n \in 0..MaxIter, Ud \in UDicts, Fd \in FDicts,
          draw \in Draws(IF loaded THEN n_data ELSE 1) :
            SolveInit(E_arg, n, Ud, Fd, draw)
    \/ SubProblemA
    \/ SubProblemB
    \/ Projection
    \/ ConvergenceCheck
    \/ LoopExhausted
    \/ Leave

Spec == Init /\ [][Next]_vars

\* ------------------------- the convergence check on a large sample set
\* np.allclose is a test with a relative tolerance, so what it answers
\* depends on the size of the indices.  The runs of Spec hold a handful of
\* samples; here the check of lines 100-104 is applied to a solve call on
\* LargeN samples that stands at the check of its first iteration, with
\* the held and the matched index of every element drawn from both ends of
\* the range.  The samples themselves are not spelled out (the check reads
\* none of them), and the candidate of every element is (0, 0).
LargeIndices == {0, 1, LargeN - 3, LargeN - 2, LargeN - 1}

InitCheck ==
    /\ tieRule = "lowest"
    /\ nSolves = 1 /\ nLoads = 1
    /\ loaded = TRUE
    /\ last_load = NoLoad
    /\ material_data = <<>>
    /\ n_data = LargeN
    /\ data_tree = None
    /\ sqE = Fl(1)
    /\ pc = "check"
    /\ idx \in [Lines -> LargeIndices]
    /\ eps_sig_idx \in [Lines -> LargeIndices]
    /\ args = [E_num |-> Some(1), n_iterations |-> MaxIter,
               U_dict |-> UDictOf(0), F_dict |-> EmptyDict, draw |-> idx]
    /\ E_num = Fl(1)
    /\ eps_sig_ = [e \in Lines |-> <<0, 0>>]
    /\ U_dict_0 = ZeroedDict(UDictOf(0))
    /\ f_obj_iter = <<TrussIntegrate([e \in Lines |-> 0], 1)>>
    /\ u = <<0, 0, 0>>
    /\ eps_sig = [e \in Lines |-> <<0, 0>>]
    /\ calls = <<>>
    /\ idx_hist = <<idx, eps_sig_idx>>
    /\ channel = "none"
    /\ result = NoResult

NextCheck == ConvergenceCheck

SpecCheck == InitCheck /\ [][NextCheck]_vars

\* ================================================================ claims
Running == pc \notin ({"idle"} \cup Terminal)

\* the iterations started so far: one sub-problem A call each
IterationsStarted == Cardinality({k \in 1..Len(calls) : calls[k].prob = "A"})

\* C1: a solve call that performed n_iterations + 1 iterations without the
\* matched indices stabilising leaves through the failure channel with a
\* NotConvergedError, never through the normal return path.
C1_NonConvergenceRaises ==
    pc = "exhausted" =>
        /\ channel = "raise"
        /\ result.kind = "exception"

\* C2, as stated: on convergence the returned strain and stress arrays are
\* the matched samples of the last projection and u is the displacement of
\* the last sub-problem A.
C2_ReturnsMatched ==
    pc = "converged" =>
        /\ \A e \in Lines :
              <<result.eps[e], result.sig[e]>> = Sample(material_data, eps_sig_idx[e])
        /\ result.u = u

\* C2, amended: on convergence the returned strain and stress arrays are the
\* candidate arrays handed to the last projection (strain of sub-problem A,
\* stress combined from sub-problem B), and u is the displacement of the
\* last sub-problem A, recomputed here from the arguments of its call.
C2_ReturnsCandidate ==
    pc = "converged" =>
        LET a == calls[Len(calls) - 1]
        IN  /\ \A e \in Lines : <<result.eps[e], result.sig[e]>> = eps_sig[e]
            /\ a.prob = "A"
            /\ result.u = TrussSolve(a.E.val, a.U_dict, a.F_dict, a.sig0).u
            /\ result.f_obj_iter = f_obj_iter

\* a converged call whose candidate differs from the matched sample
C2_Witness ==
    /\ pc = "converged"
    /\ \E e \in Lines : eps_sig[e] # Sample(material_data, eps_sig_idx[e])

\* C3: every nearest-neighbour query uses an index built with the scale sqE
\* of the solve call that makes the query.
C3_IndexScaleIsCurrent ==
    pc = "check" => Val(data_tree).sq = sqE.val

\* every loaded strain is numerically zero
AllStrainsZero == \A k \in 1..Len(material_data) : IsCloseZero(material_data[k][1])

\* C4: a solve call without E_num on samples whose strains are all zero
\* fails with DegenerateDataError before any structural_solve call, query or
\* trace entry.
C4_DegenerateFailsAtStart ==
    (pc # "idle" /\ loaded /\ IsNone(args.E_num) /\ AllStrainsZero) =>
        /\ calls = <<>>
        /\ f_obj_iter = <<>>
        /\ data_tree = None
        /\ pc \in Terminal => result = Exception("DegenerateDataError")

\* C5: a solve call performs at most n_iterations + 1 iterations, stops at
\* the first iteration whose convergence check succeeds (every earlier
\* comparison of consecutive index vectors found a difference).
IterationBudget ==
    /\ pc # "idle" => IterationsStarted <= args.n_iterations + 1
    /\ pc # "idle" => Len(f_obj_iter) <= IterationsStarted
    /\ \A k \in 1..(Len(idx_hist) - 2) : idx_hist[k] # idx_hist[k + 1]
    /\ pc = "converged" =>
          /\ Len(f_obj_iter) = IterationsStarted
          /\ Len(calls) = 2 * IterationsStarted
    /\ pc = "exhausted" => IterationsStarted = args.n_iterations + 1

\* an upper bound on the steps a solve call has left: four per iteration
\* not yet begun, offset by the position in the current one; 0 once it ended
StepsLeft ==
    IF ~Running THEN 0
    ELSE 4 * (args.n_iterations + 1 - Len(f_obj_iter))
         + (CASE pc = "while" -> 1 [] pc = "B" -> 0 [] pc = "proj" -> -1
              [] pc = "check" -> 2)

\* C5: for every n_iterations >= 0 a solve call performs at most
\* n_iterations + 1 iterations, stops at the first iteration in which
\* convergence is detected, and then terminates: every step of a running
\* call strictly lowers the non-negative bound StepsLeft, so no call runs
\* forever, and it ends converged, non-converged or raising.
C5_BoundedAndTerminates ==
    [][/\ IterationBudget'
       /\ Running =>
             /\ StepsLeft' < StepsLeft
             /\ StepsLeft' >= 0
             /\ pc' \in {"while", "B", "proj", "check"} \cup Terminal]_vars

\* both ends: a call with the largest budget that used all of it and
\* converged in its last iteration
C5_Witness ==
    /\ pc = "converged"
    /\ args.n_iterations = MaxIter
    /\ IterationsStarted = MaxIter + 1

\* C6: the failure reported on non-convergence carries the objective values
\* of all n_iterations + 1 iterations performed, in order.
C6_FailureCarriesTrace ==
    pc = "exhausted" =>
        /\ Len(f_obj_iter) = args.n_iterations + 1
        /\ "f_obj_iter" \in DOMAIN result
        /\ result.f_obj_iter = f_obj_iter

\* C7: over the structural_solve calls of one solve call, sub-problem A
\* passes a true assemble-matrix flag in iteration 1 and a false one in every
\* later iteration, and no sub-problem B call passes a true flag (calls
\* alternate A, B; B leaves the flag out).
C7_AssembleOnlyFirst ==
    \A k \in 1..Len(calls) :
        /\ calls[k].prob = (IF k % 2 = 1 THEN "A" ELSE "B")
        /\ calls[k].prob = "A" => calls[k].construct_K = Some(k = 1)
        /\ calls[k].prob = "B" => calls[k].construct_K # Some(TRUE)

\* the second iteration's two calls have been made
C7_Witness ==
    /\ Len(calls) >= 4
    /\ calls[3].construct_K = Some(FALSE)

\* the candidate (strain, stress) pairs of one mechanical solve started from
\* the local states st (lines 80-96)
CandidateFrom(E, Ud, Ud0, Fd, st) ==
    HStack(TrussSolve(E, Ud, EmptyDict, Sig0A(E, st)).eps,
           CombineSig(E, st, TrussSolve(E, Ud0, Fd, Sig0B(st)).eps))

\* the matched indices of one more iteration started from the local states
\* the last projection left
OneMoreIteration ==
    OptimalLocalStates(Val(data_tree), material_data, sqE.val,
                       CandidateFrom(E_num.val, args.U_dict, U_dict_0,
                                     args.F_dict, eps_sig_),
                       tieRule).idx

\* C8: when the matched indices of an iteration equal those of the previous
\* iteration for every element, one more mechanical solve and projection
\* started from that state yields the same matched indices again.
C8_FixedPointAbsorbing ==
    (pc = "check" /\ eps_sig_idx = idx) => OneMoreIteration = eps_sig_idx

\* a fixed point detected in a second or later iteration, with a candidate
\* that is not itself a sample
C8_Witness ==
    /\ pc = "check"
    /\ eps_sig_idx = idx
    /\ Len(f_obj_iter) >= 2
    /\ \E e \in Lines : eps_sig[e] # eps_sig_[e]

\* The loop of solve (lines 78-108) run to its end from the indices ix, the
\* local states st and the trace f, with the index c.tree; hist collects the
\* index vectors.
RECURSIVE RunLoop(_, _, _, _, _)
RunLoop(c, ix, st, f, hist) ==
    IF ~LoopCond(f, c.n)
    THEN [result |-> NotConvergedValue(c.n), idx_hist |-> hist]
    ELSE LET uu == TrussSolve(c.E, c.Ud, EmptyDict, Sig0A(c.E, st)).u
             cand == CandidateFrom(c.E, c.Ud, c.Ud0, c.Fd, st)
             r == OptimalLocalStates(c.tree, c.md, c.sq, cand, c.rule)
             f2 == AppendObj(f, r.f_obj)
             h2 == Append(hist, r.idx)
         IN  IF AllClose(ix, r.idx)
             THEN [result |-> ReturnValue(uu, cand, r.eps_sig_optimal, f2),
                   idx_hist |-> h2]
             ELSE RunLoop(c, r.idx, r.eps_sig_optimal, f2, h2)

\* solve(a) with the draw a.draw on a solver into which md has just been
\* loaded (no index yet)
FreshRun(md, a, rule) ==
    LET E == ENumOf(a.E_num, md)
        c == [md |-> md, E |-> E.val, sq |-> Sqrt(E).val, Ud |-> a.U_dict,
              Ud0 |-> ZeroedDict(a.U_dict), Fd |-> a.F_dict,
              n |-> a.n_iterations, rule |-> rule,
              tree |-> BuildTree(md, Sqrt(E).val)]
    IN  RunLoop(c, a.draw, InitialStates(md, a.draw), <<>>, <<a.draw>>)

\* the part of a run's outcome that does not rest on how the objective is
\* summed: the index vectors, the kind of result, u, eps, sig and the
\* length of the trace
Outcome(run) ==
    [idx_hist |-> run.idx_hist,
     kind |-> run.result.kind,
     values |-> IF run.result.kind = "tuple"
                THEN <<run.result.u, run.result.eps, run.result.sig,
                       Len(run.result.f_obj_iter)>>
                ELSE <<>>]

\* C9: a solve run goes through the same sequence of matched indices and
\* ends with the same outcome and values as any other run with the same
\* draw, samples and arguments: here, as the run a solver makes right after
\* loading the same samples.
C9_SameAsFreshRun ==
    (pc \in {"converged", "exhausted"}) =>
        Outcome([result |-> result, idx_hist |-> idx_hist])
            = Outcome(FreshRun(material_data, args, tieRule))

\* C10: each matched index minimises, over all loaded samples, the distance
\* between the query and the sample both rescaled with the sqE of the
\* current solve call, and the matched pair is the unscaled sample there.
C10_ProjectionIsNearest ==
    pc = "check" =>
        \A e \in Lines :
            /\ eps_sig_idx[e] \in 0..(n_data - 1)
            /\ \A j \in 0..(n_data - 1) :
                  Dist2(eps_sig[e], sqE.val,
                        Sample(material_data, eps_sig_idx[e]), sqE.val)
                    <= Dist2(eps_sig[e], sqE.val,
                             Sample(material_data, j), sqE.val)
            /\ eps_sig_[e] = Sample(material_data, eps_sig_idx[e])

\* C11: load_material_data leaves the instance without an index, and an
\* index that exists was built from the samples now loaded: no query of a
\* later solve call uses an index of a previously loaded set, and the first
\* query after a load builds its index from the new samples.
C11_LoadDropsIndex ==
    /\ last_load.outcome = "stored" => data_tree = None
    /\ ~IsNone(data_tree) => Val(data_tree).data = material_data
    /\ pc = "check" =>
          /\ ~IsNone(data_tree)
          /\ \A e \in Lines : eps_sig_idx[e] \in 0..(Len(material_data) - 1)

\* a load of other samples has just found the index of an earlier solve
\* call in place
C11_Witness ==
    /\ last_load.outcome = "stored"
    /\ ~IsNone(last_load.found_tree)
    /\ Val(last_load.found_tree).data # material_data
    /\ data_tree = None

\* C12: a load_material_data call with samples whose rows do not have exactly
\* two fields fails with InvalidDataError before anything is stored, so that
\* the loaded samples always have two fields per row and no other set
\* reaches an iteration of solve.
C12_MalformedLoadRejected ==
    /\ (last_load.outcome # "none" /\ last_load.shape1 # 2) =>
          last_load.outcome = "InvalidDataError"
    /\ loaded => Shape1(material_data) = 2
    /\ calls # <<>> => \A e \in Lines : Len(eps_sig_[e]) = 2

\* C13: solve reports convergence in an iteration exactly when, for every
\* element, the newly matched index equals the index held before it (the
\* draw in iteration 1): a call that converged has two equal index vectors
\* last, a call that goes on has two different ones, whatever the size of
\* the indices.
C13_ConvergedIffSameIndices ==
    /\ pc = "converged" =>
          idx_hist[Len(idx_hist)] = idx_hist[Len(idx_hist) - 1]
    /\ (pc = "while" /\ Len(idx_hist) >= 2) =>
          idx_hist[Len(idx_hist)] # idx_hist[Len(idx_hist) - 1]

\* Z is the zeroed variant of the displacement map Ud: the same keys and
\* axes, 0 where Ud prescribes a value (a prescribed 0 too), None where Ud
\* leaves the axis free
IsZeroedVariant(Z, Ud) ==
    /\ DOMAIN Z = DOMAIN Ud
    /\ \A key \in DOMAIN Ud :
          /\ DOMAIN Z[key] = DOMAIN Ud[key]
          /\ \A a \in DOMAIN Ud[key] :
                Z[key][a] = (IF Ud[key][a] = None THEN None ELSE Some(0))

\* C14: the displacement map built for sub-problem B, and passed in each of
\* its calls, is the zeroed variant of the caller's map, and every
\* sub-problem A call is passed the caller's map as it was given.
C14_ZeroedMapForBOnly ==
    /\ Running => IsZeroedVariant(U_dict_0, args.U_dict)
    /\ \A k \in 1..Len(calls) :
          /\ calls[k].prob = "A" => calls[k].U_dict = args.U_dict
          /\ calls[k].prob = "B" =>
                IsZeroedVariant(calls[k].U_dict, args.U_dict)

\* sub-problem B has been called for a map with a free axis, a prescribed 0
\* and a prescribed non-zero value
C14_Witness ==
    /\ \E k \in 1..Len(calls) : calls[k].prob = "B"
    /\ \E key \in DOMAIN args.U_dict : \E a \in DOMAIN args.U_dict[key] :
          args.U_dict[key][a] = None
    /\ \E key \in DOMAIN args.U_dict : \E a \in DOMAIN args.U_dict[key] :
          args.U_dict[key][a] = Some(0)
    /\ \E key \in DOMAIN args.U_dict : \E a \in DOMAIN args.U_dict[key] :
          /\ args.U_dict[key][a] # None
          /\ args.U_dict[key][a] # Some(0)

\* C15: the trace is empty when a solve call starts (a second call on the
\* same instance too) and grows by one entry per iteration: it holds k - 1
\* entries while iteration k is under way, k after iteration k's projection,
\* and a call that converges in iteration k returns a trace of length k,
\* with 1 <= k <= n_iterations + 1.
C15_TraceLength ==
    /\ (Running /\ calls = <<>>) => f_obj_iter = <<>>
    /\ pc \in {"B", "proj"} => Len(f_obj_iter) = IterationsStarted - 1
    /\ pc \in {"while", "check"} => Len(f_obj_iter) = IterationsStarted
    /\ pc = "converged" =>
          /\ result.f_obj_iter = f_obj_iter
          /\ Len(result.f_obj_iter) = IterationsStarted
          /\ IterationsStarted >= 1
          /\ IterationsStarted <= args.n_iterations + 1

\* the second call on an instance converged in its last allowed iteration,
\* which was not its first
C15_Witness ==
    /\ nSolves = 2
    /\ pc = "converged"
    /\ Len(result.f_obj_iter) = args.n_iterations + 1
    /\ Len(result.f_obj_iter) >= 2

\* C16: no step of a solve call, whether the call ends converged,
\* non-converged or with an error, changes the loaded samples (values and
\* order) or their number; the index is built from a copy.
C16_SolveKeepsSamples ==
    [][(pc # "idle" \/ pc' # "idle") =>
          /\ material_data' = material_data
          /\ n_data' = n_data
          /\ n_data' = Len(material_data')]_vars

\* the first call on an instance has ended after building its index with a
\* scale other than 1
C16_Witness ==
    /\ pc \in Terminal
    /\ nSolves = 1
    /\ ~IsNone(data_tree)
    /\ Val(data_tree).sq # 1
    /\ f_obj_iter # <<>>

\* C17: at the start of every iteration, for every element, the current
\* sample index (the one the next convergence check compares against) is
\* an index of the loaded samples and the current local state is the sample
\* at that index.
C17_LocalStateIsIndexedSample ==
    (pc = "while" /\ LoopCond(f_obj_iter, args.n_iterations)) =>
        \A e \in Lines :
            /\ idx[e] \in 0..(n_data - 1)
            /\ eps_sig_[e] = Sample(material_data, idx[e])

\* the start of a second or later iteration, with indices other than the
\* draw
C17_Witness ==
    /\ pc = "while"
    /\ LoopCond(f_obj_iter, args.n_iterations)
    /\ f_obj_iter # <<>>
    /\ idx # args.draw

\* C18: every structural_solve call of a solve call is made with a modulus
\* E_num > 0, supplied or derived, and with a scale sqE taken from such a
\* modulus: no E_num that is zero, negative or not a number gets that far.
C18_ModulusPositive ==
    \A k \in 1..Len(calls) :
        /\ Usable(calls[k].E)
        /\ Usable(sqE)

====
